---- MODULE Spec2Model ----
(***************************************************************************)
(* prpl-llm-utils: the response cache (cache.py), the model client with    *)
(* its on-disk cache (models.py), the reprompt loop driven by              *)
(* synthesize_python_function_with_llm and the reprompt checks (code.py),  *)
(* and consistent_hash (utils.py).                                         *)
(*                                                                         *)
(* A text is a sequence of tokens.  "CR" and "LF" are the carriage return  *)
(* and line feed characters, "PY" is the nine characters ```python, "F" is *)
(* a ``` that is not followed by python, and every other token is a run    *)
(* of ordinary characters: "g" code that parses and computes valid         *)
(* output, "w" code that parses and computes invalid output, "b" code      *)
(* with a syntax error.  Python's None is the empty tuple and a value v    *)
(* that may be None is <<v>>; a file that does not exist is the empty      *)
(* tuple and a file with content c is <<c>>.                               *)
(*                                                                         *)
(* fs, remoteLog, lastOp and ops are the cache directory and the calls of  *)
(* the clients; loop and synth are one call of the synthesis with its      *)
(* reprompt loop; call is one function of code.py or utils.py applied to   *)
(* an argument on its own; art is one SynthesizedPythonFunction being run. *)
(***************************************************************************)
EXTENDS Integers, Sequences, FiniteSets, TLC

VARIABLES fs, remoteLog, lastOp, ops, loop, synth, call, art

vars == <<fs, remoteLog, lastOp, ops, loop, synth, call, art>>

\* Bounds of the model.
MaxOps == 3
MaxAttemptsBound == 3

None == << >>
Some(v) == <<v>>
Absent == << >>

----------------------------------------------------------------------------
(* Text files: open(..., "w", encoding="utf-8") and open(..., "r", ...).   *)

\* f.write(s) in text mode with newline=None on POSIX: "\n" is written as
\* os.linesep, which is "\n", and every other character is written as is.
WriteText(s) == s

RECURSIVE ReadTextNormalizing(_)
ReadTextNormalizing(b) ==
    IF b = << >> THEN << >>
    ELSE IF Head(b) = "CR"
         THEN IF Len(b) >= 2 /\ b[2] = "LF"
              THEN <<"LF">> \o ReadTextNormalizing(SubSeq(b, 3, Len(b)))
              ELSE <<"LF">> \o ReadTextNormalizing(Tail(b))
         ELSE <<Head(b)>> \o ReadTextNormalizing(Tail(b))

\* f.read() in text mode with newline=None: universal newlines, so "\r\n"
\* and a lone "\r" both come back as "\n".
ReadText(b) == ReadTextNormalizing(b)

----------------------------------------------------------------------------
(* Metadata: a dict from string keys to values.  A value is <<tag, n>>     *)
(* with tag "int", "list" (the list [n]) or "tuple" (the tuple (n,)); a    *)
(* JSON document holds <<"number", n>> or <<"array", n>>.                  *)

ToJson(v) == IF v[1] = "int" THEN <<"number", v[2]>> ELSE <<"array", v[2]>>

FromJson(j) == IF j[1] = "number" THEN <<"int", j[2]>> ELSE <<"list", j[2]>>

\* json.dump(metadata, f)
JsonDump(m) == [k \in DOMAIN m |-> ToJson(m[k])]

\* json.load(f)
JsonLoad(d) == [k \in DOMAIN d |-> FromJson(d[k])]

EmptyDict == << >>

----------------------------------------------------------------------------
(* Queries and responses.                                                  *)

Query(prompt, imgs, hyperparameters) ==
    [prompt |-> prompt, imgs |-> imgs, hyperparameters |-> hyperparameters]

Response(text, metadata) == [text |-> text, metadata |-> metadata]

Hello == Query(<<"Hello!">>, None, None)
HelloSeed == Query(<<"Hello!">>, None, Some([seed |-> 1]))
WhatsUp == Query(<<"What's up?">>, Some(<<"img0">>), None)

BaseQueries == {Hello, HelloSeed, WhatsUp}

\* repr(obj) of a query: its prompt, its images and its hyperparameters.
QueryRepr(q) == <<"Query", q.prompt, q.imgs, q.hyperparameters>>

\* The inputs whose SHA-256 digest, read as an integer, is below 2**63.
SmallDigestInputs == {QueryRepr(WhatsUp)}

\* int(hashlib.sha256(obj_bytes).hexdigest(), 16): a digest is named by the
\* bytes it was computed from (SHA-256 is taken to be collision free).
Sha256Int(obj_bytes) ==
    [digest |-> obj_bytes, below2Pow63 |-> obj_bytes \in SmallDigestInputs]

\* consistent_hash(obj), given repr(obj): the integer hash_int - minus.
consistent_hash(obj_str) ==
    LET hash_int == Sha256Int(obj_str)
    IN  IF hash_int.below2Pow63
        THEN [int |-> hash_int.digest, minus |-> 0]
        ELSE [int |-> hash_int.digest, minus |-> 2^6]

\* Query.get_id(): the fingerprint of the query.
QueryGetId(q) == consistent_hash(QueryRepr(q))

\* Query.get_readable_id(): a prompt excerpt and the fingerprint.
QueryGetReadableId(q) ==
    [excerpt |-> IF q.prompt = << >> THEN << >> ELSE <<Head(q.prompt)>>,
     hash |-> QueryGetId(q)]

\* Responses a remote model returns in the client and cache operations.
Hi == Response(Some(<<"Hi!">>), [usage |-> <<"int", 1>>])

Responses ==
    { Hi,
      Response(Some(<<"a", "CR", "LF", "b">>), [usage |-> <<"tuple", 1>>]),
      Response(None, EmptyDict) }

----------------------------------------------------------------------------
(* The cache directory: fs maps the name of each folder that exists to    *)
(* its files.                                                              *)

\* f"{model_id}_{query_id}" with query_id an integer hash (excerpt empty)
\* or a readable id.
FolderName(model_id, excerpt, hash) ==
    [model_id |-> model_id, excerpt |-> excerpt, hash |-> hash]

EmptyFolder ==
    [prompt |-> Absent, imgs |-> Absent, completion |-> Absent,
     metadata |-> Absent]

\* cache_folderpath.mkdir(exist_ok=True)
Mkdir(files, dir) ==
    IF dir \in DOMAIN files THEN files ELSE files @@ (dir :> EmptyFolder)

WriteFile(files, dir, name, content) ==
    [files EXCEPT ![dir] = [@ EXCEPT ![name] = <<content>>]]

\* (cache_dir / "prompt.txt").exists()
PromptExists(files, dir) == files[dir].prompt # Absent

\* The places at which an exception (a full disk, an image that cannot be
\* encoded as JPEG, an interrupt) can end a store: after the named write,
\* or never.
InterruptPoints == {"prompt", "imgs", "completion"}

\* The writes of a store, in the order of the code: prompt.txt, the images,
\* completion.txt, metadata.json.  open(completion_file, "w") creates the
\* file before f.write(response.text) raises TypeError on a None text.
StoreWrites(files, dir, prompt, imgs, response, interrupt) ==
    LET f1 == WriteFile(files, dir, "prompt", WriteText(prompt))
        f2 == IF imgs # None THEN WriteFile(f1, dir, "imgs", imgs[1]) ELSE f1
        f3 == IF response.text = None
              THEN WriteFile(f2, dir, "completion", << >>)
              ELSE WriteFile(f2, dir, "completion", WriteText(response.text[1]))
        f4 == WriteFile(f3, dir, "metadata", JsonDump(response.metadata))
    IN  IF interrupt = "prompt" THEN [fs |-> f1, error |-> "Interrupted"]
        ELSE IF interrupt = "imgs" THEN [fs |-> f2, error |-> "Interrupted"]
        ELSE IF response.text = None THEN [fs |-> f3, error |-> "TypeError"]
        ELSE IF interrupt = "completion"
             THEN [fs |-> f3, error |-> "Interrupted"]
        ELSE [fs |-> f4, error |-> "ok"]

\* The reads of a load: completion.txt, then metadata.json.
LoadReads(files, dir) ==
    IF files[dir].completion = Absent \/ files[dir].metadata = Absent
    THEN [outcome |-> "FileNotFoundError", resp |-> None]
    ELSE [outcome |-> "ok",
          resp |-> Some(Response(Some(ReadText(files[dir].completion[1])),
                                 JsonLoad(files[dir].metadata[1])))]

----------------------------------------------------------------------------
(* models.py: PretrainedLargeModel.                                        *)

\* A client: the model's get_id() and its use_cache_only flag.
Clients ==
    { [model_id |-> "canned", use_cache_only |-> FALSE],
      [model_id |-> "canned", use_cache_only |-> TRUE],
      [model_id |-> "gpt", use_cache_only |-> FALSE] }

\* A folder named after the model and the prompt text alone.
CacheDirNameFromPromptText(self, q) ==
    FolderName(self.model_id, << >>, consistent_hash(<<"Query", q.prompt>>))

\* PretrainedLargeModel._get_cache_dir: the folder of a query, created if
\* it does not exist.
CacheDirName(self, q) == FolderName(self.model_id, << >>, QueryGetId(q))

\* query() that writes prompt.txt before it calls _run_query.
ClientQueryWritesPromptFirst(files, self, q, remote, interrupt) ==
    LET dir == CacheDirName(self, q)
        f0 == Mkdir(files, dir)
        f1 == WriteFile(f0, dir, "prompt", WriteText(q.prompt))
    IN  IF PromptExists(f0, dir)
        THEN LET ld == LoadReads(f0, dir)
             IN  [fs |-> f0, outcome |-> ld.outcome, resp |-> ld.resp,
                  remote |-> FALSE]
        ELSE IF self.use_cache_only
        THEN [fs |-> f0, outcome |-> "ValueError", resp |-> None,
              remote |-> FALSE]
        ELSE IF remote = None
        THEN [fs |-> f1, outcome |-> "RemoteError", resp |-> None,
              remote |-> TRUE]
        ELSE LET st == StoreWrites(f1, dir, q.prompt, q.imgs, remote[1],
                                   interrupt)
                 ld == LoadReads(st.fs, dir)
             IN  IF st.error # "ok"
                 THEN [fs |-> st.fs, outcome |-> st.error, resp |-> None,
                       remote |-> TRUE]
                 ELSE [fs |-> st.fs, outcome |-> ld.outcome, resp |-> ld.resp,
                       remote |-> TRUE]

\* query() that asks the model again when the entry exists and stores the
\* new answer over the old one.
ClientQueryRefreshesEntry(files, self, q, remote, interrupt) ==
    LET dir == CacheDirName(self, q)
        f0 == Mkdir(files, dir)
    IN  IF self.use_cache_only
        THEN IF PromptExists(f0, dir)
             THEN LET ld == LoadReads(f0, dir)
                  IN  [fs |-> f0, outcome |-> ld.outcome, resp |-> ld.resp,
                       remote |-> FALSE]
             ELSE [fs |-> f0, outcome |-> "ValueError", resp |-> None,
                   remote |-> FALSE]
        ELSE IF remote = None
        THEN [fs |-> f0, outcome |-> "RemoteError", resp |-> None,
              remote |-> TRUE]
        ELSE LET st == StoreWrites(f0, dir, q.prompt, q.imgs, remote[1],
                                   interrupt)
                 ld == LoadReads(st.fs, dir)
             IN  IF st.error # "ok"
                 THEN [fs |-> st.fs, outcome |-> st.error, resp |-> None,
                       remote |-> TRUE]
                 ELSE [fs |-> st.fs, outcome |-> ld.outcome, resp |-> ld.resp,
                       remote |-> TRUE]

\* PretrainedLargeModel.query.  remote is what _run_query does if it is
\* called: None when it raises, <<response>> when it returns; interrupt
\* is the place an exception ends the store, or "never".
ClientQuery(files, self, q, remote, interrupt) ==
    LET dir == CacheDirName(self, q)
        f0 == Mkdir(files, dir)
    IN  IF PromptExists(f0, dir)
        THEN LET ld == LoadReads(f0, dir)
             IN  [fs |-> f0, outcome |-> ld.outcome, resp |-> ld.resp,
                  remote |-> FALSE]
        ELSE IF self.use_cache_only
        THEN [fs |-> f0, outcome |-> "ValueError", resp |-> None,
              remote |-> FALSE]
        ELSE IF remote = None
        THEN [fs |-> f0, outcome |-> "RemoteError", resp |-> None,
              remote |-> TRUE]
        ELSE LET st == StoreWrites(f0, dir, q.prompt, q.imgs, remote[1],
                                   interrupt)
                 ld == LoadReads(st.fs, dir)
             IN  IF st.error # "ok"
                 THEN [fs |-> st.fs, outcome |-> st.error, resp |-> None,
                       remote |-> TRUE]
                 ELSE [fs |-> st.fs, outcome |-> ld.outcome, resp |-> ld.resp,
                       remote |-> TRUE]

\* What the remote model did, one entry per call of _run_query.
LogRemote(log, self, q, remote, called) ==
    IF called
    THEN Append(log, [model_id |-> self.model_id, q |-> q, result |-> remote])
    ELSE log

\* The calls of _run_query for (model_id, q) that returned a response.
SuccessfulCalls(log, model_id, q) ==
    { i \in 1..Len(log) : /\ log[i].model_id = model_id
                          /\ log[i].q = q
                          /\ log[i].result # None }

----------------------------------------------------------------------------
(* cache.py: FilePretrainedLargeModelCache.                                *)

\* FilePretrainedLargeModelCache._get_cache_dir_for_query
CacheDirForQuery(q, model_id) ==
    LET rid == QueryGetReadableId(q)
    IN  FolderName(model_id, rid.excerpt, rid.hash)

\* FilePretrainedLargeModelCache.try_load_response
TryLoadResponse(files, q, model_id) ==
    LET dir == CacheDirForQuery(q, model_id)
        f0 == Mkdir(files, dir)
    IN  IF ~PromptExists(f0, dir)
        THEN [fs |-> f0, outcome |-> "ResponseNotFound", resp |-> None]
        ELSE LET ld == LoadReads(f0, dir)
             IN  [fs |-> f0, outcome |-> ld.outcome, resp |-> ld.resp]

\* FilePretrainedLargeModelCache.save
CacheSave(files, q, model_id, response, interrupt) ==
    LET dir == CacheDirForQuery(q, model_id)
    IN  StoreWrites(Mkdir(files, dir), dir, q.prompt, q.imgs, response,
                    interrupt)

----------------------------------------------------------------------------
(* code.py: extraction of the code block and the reprompt checks.          *)

MinOf(S) == CHOOSE i \in S : \A j \in S : i <= j

\* parse_python_code_from_text: None, or <<the code>>.
ParsePythonCode(text) ==
    LET starts == { i \in 1..Len(text) : text[i] = "PY" }
    IN  IF starts = {} THEN None
        ELSE LET python_start == MinOf(starts)
                 python_remainder == SubSeq(text, python_start + 1, Len(text))
                 fences == { i \in 1..Len(python_remainder) :
                               python_remainder[i] \in {"F", "PY"} }
                 python_end == IF fences # {} THEN MinOf(fences) - 1
                               ELSE Len(python_remainder)
             IN  Some(SubSeq(python_remainder, 1, python_end))

\* ast.parse(python_code) returns (it does not raise SyntaxError).
AstParses(python_code) ==
    \A i \in 1..Len(python_code) : python_code[i] \in {"g", "w", "LF"}

\* create_reprompt_from_error_message: the follow-up query, its prompt made
\* of the original prompt, the rejected completion and the error message.
CreateReprompt(query, response, error_msg) ==
    Query(query.prompt \o <<"RESPONSE">> \o response.text[1] \o <<"ERROR">>
              \o error_msg,
          query.imgs, query.hyperparameters)

\* What a check's get_reprompt does: raised is the exception ("" if none),
\* reprompt is None (accepted) or <<the follow-up query>>.
Accepted == [raised |-> "", reprompt |-> None]
Rejected(query, response, error_msg) ==
    [raised |-> "",
     reprompt |-> Some(CreateReprompt(query, response, error_msg))]
Raises(exception) == [raised |-> exception, reprompt |-> None]

\* SyntaxRepromptCheck.get_reprompt
SyntaxGetReprompt(query, response) ==
    IF response.text = None THEN Raises("TypeError")
    ELSE LET python_code == ParsePythonCode(response.text[1])
         IN  IF python_code = None
             THEN Rejected(query, response, <<"No python code was found">>)
             ELSE IF AstParses(python_code[1]) THEN Accepted
             ELSE Rejected(query, response, <<"SyntaxError">>)

\* The code defines count_good_dogs: it holds a statement.
Defines(python_code, function_name) ==
    /\ function_name = "count_good_dogs"
    /\ \E i \in 1..Len(python_code) : python_code[i] \in {"g", "w"}

\* fn.run(*fn_in) for fn = SynthesizedPythonFunction(function_name,
\* python_code): the module load raises SyntaxError on code that does not
\* parse, getattr raises AttributeError when the function is not defined;
\* an input is a number of dogs, right code returns it and code with a "w"
\* returns one less.
RunCode(function_name, python_code, fn_in) ==
    IF ~AstParses(python_code) THEN [raised |-> "SyntaxError", out |-> 0]
    ELSE IF ~Defines(python_code, function_name)
    THEN [raised |-> "AttributeError", out |-> 0]
    ELSE IF \E i \in 1..Len(python_code) : python_code[i] = "w"
    THEN [raised |-> "", out |-> fn_in - 1]
    ELSE [raised |-> "", out |-> fn_in]

\* FunctionOutputRepromptCheck(function_name, inputs, output_check_fns);
\* a check function is the set of the outputs it finds valid.
OutputCheck(function_name, inputs, output_check_fns) ==
    [function_name |-> function_name, inputs |-> inputs,
     output_check_fns |-> output_check_fns]

\* The assert of FunctionOutputRepromptCheck.__init__ passes.
OutputCheckInitOk(check) == Len(check.inputs) = Len(check.output_check_fns)

\* The check made from the examples [(2 dogs, 2), (1 dog, 1)].
DogsOutputCheck == OutputCheck("count_good_dogs", <<2, 1>>, <<{2}, {1}>>)

\* Every pair is run, and the first failing pair is the one reported.
RECURSIVE EvalAllPairs(_, _, _, _)
EvalAllPairs(check, python_code, i, found) ==
    IF i > Len(check.inputs)
    THEN IF found = None
         THEN [raised |-> "", rejectedAt |-> 0, out |-> 0,
               ran |-> check.inputs]
         ELSE [found[1] EXCEPT !.ran = check.inputs]
    ELSE LET r == RunCode(check.function_name, python_code, check.inputs[i])
         IN  IF r.raised # ""
             THEN [raised |-> r.raised, rejectedAt |-> 0, out |-> 0,
                   ran |-> SubSeq(check.inputs, 1, i)]
             ELSE IF r.out \notin check.output_check_fns[i] /\ found = None
             THEN EvalAllPairs(check, python_code, i + 1,
                               Some([raised |-> "", rejectedAt |-> i,
                                     out |-> r.out, ran |-> << >>]))
             ELSE EvalAllPairs(check, python_code, i + 1, found)

CheckOutputsRunsEveryPair(check, python_code) ==
    EvalAllPairs(check, python_code, 1, None)

\* The loop over zip(self._inputs, self._output_check_fns) from pair i on:
\* the exception of a run, or the first pair whose output is refused
\* (rejectedAt, 0 if none is) with that output; ran is the inputs run.
RECURSIVE EvalPairs(_, _, _)
EvalPairs(check, python_code, i) ==
    IF i > Len(check.inputs)
    THEN [raised |-> "", rejectedAt |-> 0, out |-> 0, ran |-> check.inputs]
    ELSE LET r == RunCode(check.function_name, python_code, check.inputs[i])
         IN  IF r.raised # ""
             THEN [raised |-> r.raised, rejectedAt |-> 0, out |-> 0,
                   ran |-> SubSeq(check.inputs, 1, i)]
             ELSE IF r.out \notin check.output_check_fns[i]
             THEN [raised |-> "", rejectedAt |-> i, out |-> r.out,
                   ran |-> SubSeq(check.inputs, 1, i)]
             ELSE EvalPairs(check, python_code, i + 1)

CheckOutputs(check, python_code) == EvalPairs(check, python_code, 1)

\* f"Given the input {fn_in}, the output of {function_name} was {fn_out},
\* which is invalid"
OutputErrorMsg(function_name, fn_in, fn_out) ==
    <<"Given the input", ToString(fn_in), "the output of", function_name,
      "was", ToString(fn_out), "which is invalid">>

\* FunctionOutputRepromptCheck.get_reprompt with the inputs it ran.
OutputCheckGetReprompt(check, query, response) ==
    IF response.text = None
    THEN [raised |-> "TypeError", reprompt |-> None, ran |-> << >>]
    ELSE LET python_code == ParsePythonCode(response.text[1])
         IN  IF python_code = None
             THEN [raised |-> "AssertionError", reprompt |-> None,
                   ran |-> << >>]
             ELSE LET e == CheckOutputs(check, python_code[1])
                  IN  IF e.raised # ""
                      THEN [raised |-> e.raised, reprompt |-> None,
                            ran |-> e.ran]
                      ELSE IF e.rejectedAt # 0
                      THEN [raised |-> "",
                            reprompt |-> Some(CreateReprompt(query, response,
                                OutputErrorMsg(check.function_name,
                                               check.inputs[e.rejectedAt],
                                               e.out))),
                            ran |-> e.ran]
                      ELSE [raised |-> "", reprompt |-> None, ran |-> e.ran]

\* FunctionOutputRepromptCheck.get_reprompt of the check made from the
\* examples of count_good_dogs.
OutputGetReprompt(query, response) ==
    LET r == OutputCheckGetReprompt(DogsOutputCheck, query, response)
    IN  [raised |-> r.raised, reprompt |-> r.reprompt]

\* A check written by the caller: "Reject" refuses every response, "Any"
\* refuses or accepts as the caller's predicate decides (verdict).
CustomGetReprompt(query, response, verdict) ==
    IF verdict THEN Accepted
    ELSE Rejected(query, response, <<"rejected by the caller's check">>)

\* check.get_reprompt(query, response) for a check of the given kind.
GetReprompt(kind, query, response, verdict) ==
    IF kind = "Syntax" THEN SyntaxGetReprompt(query, response)
    ELSE IF kind = "Output" THEN OutputGetReprompt(query, response)
    ELSE IF kind = "Reject" THEN CustomGetReprompt(query, response, FALSE)
    ELSE CustomGetReprompt(query, response, verdict)

----------------------------------------------------------------------------
(* State.                                                                  *)

NoOp ==
    [kind |-> "none", model_id |-> "", use_cache_only |-> FALSE, q |-> Hello,
     outcome |-> "", resp |-> None, remote |-> FALSE, given |-> None,
     hadMarker |-> FALSE, priorSuccess |-> FALSE]

\* The reprompt loop of one call of synthesize_python_function_with_llm:
\* issued and returned are the queries issued and the responses they
\* returned, evals the checks run on the current response with what each
\* answered, rejectedBy the check that refused the previous response,
\* history the attempts that ended (rejectedBy 0: every check accepted),
\* exception what a raising query() raised, first the outcome of the run
\* this one repeats (None if it repeats none).
IdleLoop ==
    [state |-> "Idle", attempt |-> 0, max_attempts |-> 0, chain |-> << >>,
     self |-> [model_id |-> "", use_cache_only |-> FALSE], query |-> Hello,
     initial |-> Hello, resp |-> None, idx |-> 0, issued |-> << >>,
     returned |-> << >>, evals |-> << >>, rejectedBy |-> None,
     followup |-> None, raisedBy |-> "", history |-> << >>,
     exception |-> "", first |-> None]

IdleSynth ==
    [state |-> "Idle", function_name |-> "", checksGiven |-> FALSE,
     artifact |-> None, error |-> ""]

\* A call of one of the functions of code.py and utils.py on its own: the
\* function, its argument, and its result once it has been applied.
NoCall == [fn |-> "", arg |-> << >>, done |-> FALSE, result |-> << >>]

\* A SynthesizedPythonFunction that is being run: no instance yet.
NoArtifact == [made |-> FALSE]

Init ==
    /\ fs = << >>
    /\ remoteLog = << >>
    /\ lastOp = NoOp
    /\ ops = 0
    /\ loop = IdleLoop
    /\ synth = IdleSynth
    /\ call = NoCall
    /\ art = NoArtifact

\* One call of query() on a client.
DoQuery(self, q, remote, interrupt) ==
    LET r == ClientQuery(fs, self, q, remote, interrupt)
        dir == CacheDirName(self, q)
    IN  /\ fs' = r.fs
        /\ remoteLog' = LogRemote(remoteLog, self, q, remote, r.remote)
        /\ lastOp' = [kind |-> "query", model_id |-> self.model_id,
                      use_cache_only |-> self.use_cache_only, q |-> q,
                      outcome |-> r.outcome, resp |-> r.resp,
                      remote |-> r.remote,
                      given |-> IF r.remote THEN remote ELSE None,
                      hadMarker |-> dir \in DOMAIN fs /\ PromptExists(fs, dir),
                      priorSuccess |->
                          SuccessfulCalls(remoteLog, self.model_id, q) # {}]

QueryAction ==
    /\ ops < MaxOps
    /\ loop.state = "Idle"
    /\ \E self \in Clients, q \in BaseQueries, remote \in {None} \cup
                                        { Some(r) : r \in Responses } :
          DoQuery(self, q, remote, "never")
    /\ ops' = ops + 1
    /\ UNCHANGED <<loop, synth>>
    /\ UNCHANGED <<call, art>>

\* query() whose store is ended by an exception.
QueryInterrupted ==
    /\ ops < MaxOps
    /\ loop.state = "Idle"
    /\ \E self \in Clients, q \in BaseQueries, interrupt \in InterruptPoints :
          /\ ~self.use_cache_only
          /\ DoQuery(self, q, Some(Hi), interrupt)
    /\ ops' = ops + 1
    /\ UNCHANGED <<loop, synth>>
    /\ UNCHANGED <<call, art>>

SaveAction ==
    /\ ops < MaxOps
    /\ loop.state = "Idle"
    /\ \E q \in BaseQueries, r \in Responses :
          LET st == CacheSave(fs, q, "canned", r, "never")
          IN  /\ fs' = st.fs
              /\ lastOp' = [NoOp EXCEPT !.kind = "save", !.model_id = "canned",
                                        !.q = q, !.outcome = st.error,
                                        !.given = Some(r)]
    /\ ops' = ops + 1
    /\ UNCHANGED <<remoteLog, loop, synth>>
    /\ UNCHANGED <<call, art>>

SaveInterrupted ==
    /\ ops < MaxOps
    /\ loop.state = "Idle"
    /\ \E q \in BaseQueries, interrupt \in InterruptPoints :
          LET st == CacheSave(fs, q, "canned", Hi, interrupt)
          IN  /\ fs' = st.fs
              /\ lastOp' = [NoOp EXCEPT !.kind = "save", !.model_id = "canned",
                                        !.q = q, !.outcome = st.error,
                                        !.given = Some(Hi)]
    /\ ops' = ops + 1
    /\ UNCHANGED <<remoteLog, loop, synth>>
    /\ UNCHANGED <<call, art>>

LoadAction ==
    /\ ops < MaxOps
    /\ loop.state = "Idle"
    /\ \E q \in BaseQueries :
          LET ld == TryLoadResponse(fs, q, "canned")
              dir == CacheDirForQuery(q, "canned")
          IN  /\ fs' = ld.fs
              /\ lastOp' = [NoOp EXCEPT !.kind = "load", !.model_id = "canned",
                                        !.q = q, !.outcome = ld.outcome,
                                        !.resp = ld.resp,
                                        !.hadMarker = dir \in DOMAIN fs
                                            /\ PromptExists(fs, dir)]
    /\ ops' = ops + 1
    /\ UNCHANGED <<remoteLog, loop, synth>>
    /\ UNCHANGED <<call, art>>

----------------------------------------------------------------------------
(* The reprompt loop (query_with_reprompts) and                            *)
(* synthesize_python_function_with_llm.                                    *)

CodeQuery == Query(<<"Generate count_good_dogs">>, None, None)

\* Responses a remote model returns to a request for code: a block that
\* parses and is right, a block with a syntax error, an unclosed block
\* that parses and is wrong, and no block.
ValidCode == Response(Some(<<"PY", "LF", "g", "LF", "F", "LF">>), EmptyDict)
SyntaxErrorCode == Response(Some(<<"PY", "LF", "b", "LF", "F">>), EmptyDict)
WrongCode == Response(Some(<<"PY", "LF", "w">>), EmptyDict)
NoCode == Response(Some(<<"Sorry">>), EmptyDict)

CodeResponses == {ValidCode, SyntaxErrorCode, WrongCode, NoCode}

\* The check chains a caller passes: None, or a list of checks.
Chains ==
    { None, Some(<< >>), Some(<<"Syntax">>), Some(<<"Syntax", "Output">>),
      Some(<<"Output", "Syntax">>), Some(<<"Reject">>), Some(<<"Any">>),
      Some(<<"Any", "Reject">>), Some(<<"Syntax", "Any">>) }

LoopClients == { self \in Clients : self.model_id = "canned" }

MayRepromptOnceMore(attempt, max_attempts) == attempt <= max_attempts

\* The loop goes on after a rejection at this attempt.
MayReprompt(attempt, max_attempts) == attempt < max_attempts

\* The follow-up is taken and the attempt counter is left as it was.
AfterRejectionKeepsAttempt(l, idx, followup) ==
    [l EXCEPT !.state = "Pending", !.query = followup,
              !.rejectedBy = Some(idx), !.followup = Some(followup)]

\* The follow-up is noted and the checks after idx are still run.
AfterRejectionRunsRemainingChecks(l, idx, followup) ==
    [l EXCEPT !.idx = idx + 1, !.rejectedBy = Some(idx),
              !.followup = Some(followup)]

\* The state after check idx has refused the response with a follow-up.
AfterRejection(l, idx, followup) ==
    IF MayReprompt(l.attempt, l.max_attempts)
    THEN [l EXCEPT !.state = "Pending", !.attempt = @ + 1,
                   !.query = followup, !.rejectedBy = Some(idx),
                   !.followup = Some(followup)]
    ELSE [l EXCEPT !.state = "Exhausted", !.rejectedBy = Some(idx),
                   !.followup = Some(followup)]

\* The first acceptance ends the round.
AfterAcceptanceSkipsRest(l, idx) == [l EXCEPT !.idx = Len(l.chain) + 1]

\* The state after check idx has accepted the response.
AfterAcceptance(l, idx) == [l EXCEPT !.idx = idx + 1]

\* A query cached before the synthesis starts.
WarmCache ==
    /\ ops = 0
    /\ loop.state = "Idle"
    /\ \E r \in CodeResponses :
          DoQuery([model_id |-> "canned", use_cache_only |-> FALSE],
                  CodeQuery, Some(r), "never")
    /\ ops' = ops + 1
    /\ UNCHANGED <<loop, synth>>
    /\ UNCHANGED <<call, art>>

\* synthesize_python_function_with_llm is called: the loop starts Pending
\* with the caller's query and attempt 1.
SynthStart ==
    /\ loop.state = "Idle"
    /\ synth.state = "Idle"
    /\ \E self \in LoopClients, chain \in Chains,
          max_attempts \in 1..MaxAttemptsBound :
          /\ loop' = [IdleLoop EXCEPT
                        !.state = "Pending", !.attempt = 1,
                        !.max_attempts = max_attempts,
                        !.chain = IF chain = None THEN << >> ELSE chain[1],
                        !.self = self, !.query = CodeQuery,
                        !.initial = CodeQuery]
          /\ synth' = [IdleSynth EXCEPT !.state = "Running",
                                        !.function_name = "count_good_dogs",
                                        !.checksGiven = chain # None]
    /\ UNCHANGED <<fs, remoteLog, lastOp, ops>>
    /\ UNCHANGED <<call, art>>

\* The model answers a query as it answered it before: _run_query of
\* CannedResponseModel is a dictionary lookup.
SameAnswerAsBefore(log, self, q, remote) ==
    \A i \in 1..Len(log) :
        (log[i].model_id = self.model_id /\ log[i].q = q) =>
            remote = log[i].result

\* Pending -> Validating: the current query is issued through the client.
\* In a run that repeats an earlier one the model is the same model.
LoopIssue ==
    /\ loop.state = "Pending"
    /\ \E remote \in {None, Some(Response(None, EmptyDict))} \cup
                       { Some(r) : r \in CodeResponses } :
          /\ loop.first # None =>
                 SameAnswerAsBefore(remoteLog, loop.self, loop.query, remote)
          /\ DoQuery(loop.self, loop.query, remote, "never")
          /\ LET r == ClientQuery(fs, loop.self, loop.query, remote, "never")
             IN  loop' =
                   IF r.outcome = "ok"
                   THEN [loop EXCEPT !.state = "Validating",
                                     !.resp = r.resp, !.idx = 1,
                                     !.issued = Append(@, loop.query),
                                     !.returned = Append(@, r.resp[1]),
                                     !.evals = << >>]
                   ELSE [loop EXCEPT !.state = "Raised",
                                     !.issued = Append(@, loop.query),
                                     !.resp = None,
                                     !.raisedBy = "query",
                                     !.exception = r.outcome]
    /\ UNCHANGED <<ops, synth>>
    /\ UNCHANGED <<call, art>>

\* Validating: the next check of the chain is run on the response.
LoopCheck ==
    /\ loop.state = "Validating"
    /\ loop.idx <= Len(loop.chain)
    /\ \E verdict \in BOOLEAN :
          LET kind == loop.chain[loop.idx]
              res == GetReprompt(kind, loop.query, loop.resp[1], verdict)
              seen == [loop EXCEPT
                         !.evals =
                             Append(@, [idx |-> loop.idx, kind |-> kind,
                                        accepted |-> res.raised = ""
                                                     /\ res.reprompt = None]),
                         !.history =
                             IF res.raised = "" /\ res.reprompt # None
                             THEN Append(@, [query |-> loop.query,
                                             resp |-> loop.resp[1],
                                             rejectedBy |-> loop.idx])
                             ELSE @]
          IN  loop' = IF res.raised # ""
                      THEN [seen EXCEPT !.state = "Raised",
                                        !.raisedBy = res.raised]
                      ELSE IF res.reprompt # None
                      THEN AfterRejection(seen, loop.idx, res.reprompt[1])
                      ELSE AfterAcceptance(seen, loop.idx)
    /\ UNCHANGED <<fs, remoteLog, lastOp, ops, synth>>
    /\ UNCHANGED <<call, art>>

\* Validating -> Accepted: every check has accepted the response.
LoopAccept ==
    /\ loop.state = "Validating"
    /\ loop.idx > Len(loop.chain)
    /\ loop' = [loop EXCEPT !.state = "Accepted",
                            !.history = Append(@, [query |-> loop.query,
                                                   resp |-> loop.resp[1],
                                                   rejectedBy |-> 0])]
    /\ UNCHANGED <<fs, remoteLog, lastOp, ops, synth>>
    /\ UNCHANGED <<call, art>>

LoopTerminal == {"Accepted", "Exhausted", "Raised"}

\* SynthesizedPythonFunction(function_name, code_str)
SynthesizedPythonFunction(function_name, code_str) ==
    [function_name |-> function_name, code_str |-> code_str]

\* A response without a code block is taken whole as the code, as
\* parse_python_code_from_llm_response of utils.py does.
SynthResultWholeText(sy, response) ==
    LET python_code == ParsePythonCode(response.text[1])
    IN  [sy EXCEPT !.state = "Returned",
                   !.artifact = Some(SynthesizedPythonFunction(
                       sy.function_name,
                       IF python_code = None THEN response.text[1]
                       ELSE python_code[1]))]

\* What synthesize_python_function_with_llm does with the response the
\* loop returned.
SynthResult(sy, response) ==
    IF response.text = None
    THEN [sy EXCEPT !.state = "Raised", !.error = "TypeError"]
    ELSE LET python_code == ParsePythonCode(response.text[1])
         IN  IF python_code = None
             THEN [sy EXCEPT !.state = "Raised", !.error = "RuntimeError"]
             ELSE [sy EXCEPT !.state = "Returned",
                             !.artifact = Some(SynthesizedPythonFunction(
                                 sy.function_name, python_code[1]))]

\* The loop has returned or raised: the synthesis ends.
SynthFinish ==
    /\ synth.state = "Running"
    /\ loop.state \in LoopTerminal
    /\ synth' = IF loop.state = "Raised"
                THEN [synth EXCEPT !.state = "Raised",
                                   !.error = loop.raisedBy]
                ELSE SynthResult(synth, loop.resp[1])
    /\ UNCHANGED <<fs, remoteLog, lastOp, ops, loop>>
    /\ UNCHANGED <<call, art>>

LoopStep == LoopIssue \/ LoopCheck \/ LoopAccept \/ SynthFinish

NextLoop == WarmCache \/ SynthStart \/ LoopStep

SpecLoop == Init /\ [][NextLoop]_vars

SpecLoopFair == SpecLoop /\ WF_vars(LoopStep)

\* What a run of the loop did: the queries it issued, the responses they
\* returned, and how it ended.
RunOutcome(l) ==
    [issued |-> l.issued, returned |-> l.returned, state |-> l.state,
     resp |-> l.resp, raisedBy |-> l.raisedBy, exception |-> l.exception]

\* The checks of code.py and a check that refuses everything answer the
\* same response the same way every time.
DeterministicChain(chain) ==
    \A i \in 1..Len(chain) : chain[i] \in {"Syntax", "Output", "Reject"}

\* synthesize_python_function_with_llm is called a second time with the
\* same model, query, checks and max_attempts, on the cache directory the
\* first call left.
SynthRerun ==
    /\ synth.state \in {"Returned", "Raised"}
    /\ loop.state \in LoopTerminal
    /\ loop.first = None
    /\ DeterministicChain(loop.chain)
    /\ loop' = [IdleLoop EXCEPT
                  !.state = "Pending", !.attempt = 1,
                  !.max_attempts = loop.max_attempts,
                  !.chain = loop.chain, !.self = loop.self,
                  !.query = loop.initial, !.initial = loop.initial,
                  !.first = Some(RunOutcome(loop))]
    /\ synth' = [IdleSynth EXCEPT !.state = "Running",
                                  !.function_name = synth.function_name,
                                  !.checksGiven = synth.checksGiven]
    /\ UNCHANGED <<fs, remoteLog, lastOp, ops>>
    /\ UNCHANGED <<call, art>>

NextRerun == NextLoop \/ SynthRerun

SpecRerun == Init /\ [][NextRerun]_vars

Next == QueryAction

Spec == Init /\ [][Next]_vars

NextCrash ==
    QueryAction \/ QueryInterrupted \/ SaveAction \/ SaveInterrupted
        \/ LoadAction

SpecCrash == Init /\ [][NextCrash]_vars

\* The cache used on its own: save and try_load_response.
NextCache == SaveAction \/ LoadAction

SpecCache == Init /\ [][NextCache]_vars

----------------------------------------------------------------------------
(* The functions of code.py applied on their own.                          *)

\* The longest text given to parse_python_code_from_text.
MaxTextLen == 4

TextTokens == {"PY", "F", "LF", "g"}

Texts == UNION { [1..n -> TextTokens] : n \in 0..MaxTextLen }

InitQuiet ==
    /\ fs = << >>
    /\ remoteLog = << >>
    /\ lastOp = NoOp
    /\ ops = 0
    /\ loop = IdleLoop
    /\ synth = IdleSynth
    /\ art = NoArtifact

InitParse ==
    /\ InitQuiet
    /\ call \in { [NoCall EXCEPT !.fn = "parse_python_code_from_text",
                                 !.arg = text] : text \in Texts }

\* parse_python_code_from_text(text) is called.
ParseAction ==
    /\ call.fn = "parse_python_code_from_text"
    /\ ~call.done
    /\ call' = [call EXCEPT !.done = TRUE,
                            !.result = ParsePythonCode(call.arg)]
    /\ UNCHANGED <<fs, remoteLog, lastOp, ops, loop, synth, art>>

NextParse == ParseAction

SpecParse == InitParse /\ [][NextParse]_vars

----------------------------------------------------------------------------
(* SynthesizedPythonFunction: filepath, _load_module and run.              *)

\* The most calls of run() on one instance.
MaxRuns == 3

CodeTokens == {"g", "w", "b", "LF"}

\* Code strings.
Codes == UNION { [1..n -> CodeTokens] : n \in 1..2 }

FunctionNames == {"count_good_dogs", "count_bad_dogs"}

\* SynthesizedPythonFunction(function_name, code_str): neither the file
\* nor a module exists yet.  filepath is None or <<the file>>, written the
\* number of times the cached property was computed; modules counts the
\* module objects made by _load_module, lastModule is the one the last
\* run() used, callsInModule the calls that module has served.
ArtifactMake ==
    /\ ~art.made
    /\ \E function_name \in FunctionNames, code_str \in Codes :
          art' = [made |-> TRUE,
                  fn |-> SynthesizedPythonFunction(function_name, code_str),
                  filepath |-> None, filesWritten |-> 0, modules |-> 0,
                  runs |-> 0, lastModule |-> 0, callsInModule |-> 0,
                  raised |-> ""]
    /\ UNCHANGED <<fs, remoteLog, lastOp, ops, loop, synth, call>>

\* self.filepath: the cached property writes the file the first time it
\* is read.
Filepath(a) ==
    IF a.filepath = None
    THEN [a EXCEPT !.filepath = Some(a.filesWritten + 1),
                   !.filesWritten = @ + 1]
    ELSE a

\* self._load_module(): a new module is made from the file and executed.
LoadModule(a) ==
    LET f == Filepath(a)
        m == [f EXCEPT !.modules = @ + 1, !.lastModule = f.modules + 1,
                       !.callsInModule = 0]
    IN  IF AstParses(a.fn.code_str) THEN [m EXCEPT !.raised = ""]
        ELSE [m EXCEPT !.raised = "SyntaxError"]

\* self.run(*input_args)
Run(a) ==
    LET m == LoadModule(a)
    IN  IF m.raised # "" THEN [m EXCEPT !.runs = @ + 1]
        ELSE IF ~Defines(a.fn.code_str, a.fn.function_name)
        THEN [m EXCEPT !.runs = @ + 1, !.raised = "AttributeError"]
        ELSE [m EXCEPT !.runs = @ + 1, !.callsInModule = @ + 1]

ArtifactRun ==
    /\ art.made
    /\ art.runs < MaxRuns
    /\ art' = Run(art)
    /\ UNCHANGED <<fs, remoteLog, lastOp, ops, loop, synth, call>>

NextArtifact == ArtifactMake \/ ArtifactRun

SpecArtifact == Init /\ [][NextArtifact]_vars

----------------------------------------------------------------------------
(* FunctionOutputRepromptCheck made and applied on its own.                *)

\* The longest list of inputs and of check functions given to the check.
MaxPairs == 2

\* Inputs: a number of dogs.  Check functions: the outputs they accept.
CheckInputs == {1, 2}
CheckFns == { {0, 1, 2}, {1, 2}, {1}, {2} }

InputLists == UNION { [1..n -> CheckInputs] : n \in 0..MaxPairs }
CheckFnLists == UNION { [1..n -> CheckFns] : n \in 0..MaxPairs }

\* The responses given to a check on its own.
CheckedResponses == CodeResponses \cup {Response(None, EmptyDict)}

InitOutputCheck ==
    /\ InitQuiet
    /\ call \in { [NoCall EXCEPT
                     !.fn = "FunctionOutputRepromptCheck",
                     !.arg = [check |-> OutputCheck("count_good_dogs",
                                                    inputs, fns),
                              query |-> CodeQuery, response |-> response]] :
                  inputs \in InputLists, fns \in CheckFnLists,
                  response \in CheckedResponses }

\* FunctionOutputRepromptCheck(...).get_reprompt(query, response): the
\* constructor raises AssertionError when the lists differ in length.
OutputCheckAction ==
    /\ call.fn = "FunctionOutputRepromptCheck"
    /\ ~call.done
    /\ call' = [call EXCEPT
                  !.done = TRUE,
                  !.result =
                      IF ~OutputCheckInitOk(call.arg.check)
                      THEN [constructed |-> FALSE, raised |-> "AssertionError",
                            reprompt |-> None, ran |-> << >>]
                      ELSE LET r == OutputCheckGetReprompt(call.arg.check,
                                        call.arg.query, call.arg.response)
                           IN  [constructed |-> TRUE, raised |-> r.raised,
                                reprompt |-> r.reprompt, ran |-> r.ran]]
    /\ UNCHANGED <<fs, remoteLog, lastOp, ops, loop, synth, art>>

NextOutputCheck == OutputCheckAction

SpecOutputCheck == InitOutputCheck /\ [][NextOutputCheck]_vars

----------------------------------------------------------------------------
(* SyntaxRepromptCheck applied on its own.                                 *)

SyntaxTexts ==
    UNION { [1..n -> TextTokens \cup {"b"}] : n \in 0..MaxTextLen }

InitSyntaxCheck ==
    /\ InitQuiet
    /\ call \in { [NoCall EXCEPT
                     !.fn = "SyntaxRepromptCheck",
                     !.arg = [query |-> CodeQuery,
                              response |-> Response(text, EmptyDict)]] :
                  text \in {None} \cup { Some(t) : t \in SyntaxTexts } }

\* SyntaxRepromptCheck().get_reprompt(query, response)
SyntaxCheckAction ==
    /\ call.fn = "SyntaxRepromptCheck"
    /\ ~call.done
    /\ call' = [call EXCEPT
                  !.done = TRUE,
                  !.result = SyntaxGetReprompt(call.arg.query,
                                               call.arg.response)]
    /\ UNCHANGED <<fs, remoteLog, lastOp, ops, loop, synth, art>>

NextSyntaxCheck == SyntaxCheckAction

SpecSyntaxCheck == InitSyntaxCheck /\ [][NextSyntaxCheck]_vars

----------------------------------------------------------------------------
(* consistent_hash applied on its own.  A Python integer is a sign and a   *)
(* magnitude; the magnitude of a 256 bit digest is sixteen words of        *)
(* sixteen bits, the lowest first.                                         *)

WordBase == 2^16

\* hash_int < 2**63: bit 63 and every higher bit is 0.
Below2Pow63(n) ==
    /\ n[4] < 2^15
    /\ \A i \in 5..Len(n) : n[i] = 0

\* n - k for a magnitude n >= k and a k below WordBase, from word i on.
RECURSIVE SubtractAt(_, _, _)
SubtractAt(n, i, k) ==
    IF n[i] >= k THEN [n EXCEPT ![i] = @ - k]
    ELSE SubtractAt([n EXCEPT ![i] = @ + WordBase - k], i + 1, 1)

PyInt(negative, magnitude) == [negative |-> negative, magnitude |-> magnitude]

\* The return statement of consistent_hash.
ConsistentHashOfDigest(hash_int) ==
    IF Below2Pow63(hash_int) THEN PyInt(FALSE, hash_int)
    ELSE PyInt(FALSE, SubtractAt(hash_int, 1, 2^6))

\* Digests: values of int(hash_hex, 16) around 0, 2**6, 2**63 and 2**256.
Digests ==
    { <<w1, w2, w3, w4>> \o [i \in 1..12 |-> high] :
        w1 \in {0, 63, 64, WordBase - 1}, w2 \in {0, WordBase - 1},
        w3 \in {0, WordBase - 1},
        w4 \in {0, 2^15 - 1, 2^15, WordBase - 1},
        high \in {0, 1, WordBase - 1} }

InitHash ==
    /\ InitQuiet
    /\ call \in { [NoCall EXCEPT !.fn = "consistent_hash",
                                 !.arg = hash_int] : hash_int \in Digests }

\* consistent_hash(obj) for an obj whose repr has the digest call.arg.
HashAction ==
    /\ call.fn = "consistent_hash"
    /\ ~call.done
    /\ call' = [call EXCEPT !.done = TRUE,
                            !.result = ConsistentHashOfDigest(call.arg)]
    /\ UNCHANGED <<fs, remoteLog, lastOp, ops, loop, synth, art>>

NextHash == HashAction

SpecHash == InitHash /\ [][NextHash]_vars

----------------------------------------------------------------------------
(* Properties of the client and of the cache.                              *)

LastQueryDir ==
    CacheDirName([model_id |-> lastOp.model_id,
                  use_cache_only |-> lastOp.use_cache_only], lastOp.q)

\* A response as a store followed by a load gives it back.
Persisted(r) ==
    Response(Some(ReadText(WriteText(r.text[1]))),
             JsonLoad(JsonDump(r.metadata)))

\* _run_query has returned at most once for each (model, query).
AtMostOneSuccessfulRemoteCall ==
    \A self \in Clients, q \in BaseQueries :
        Cardinality(SuccessfulCalls(remoteLog, self.model_id, q)) <= 1

\* C1: once _run_query has returned for a query, a later query() for the
\* same model identifier and an equal query does not call _run_query again
\* and returns the cached value, whichever client issues it.
C1_LaterQueryObservesCachedValue ==
    (lastOp.kind = "query" /\ lastOp.priorSuccess) =>
        /\ ~lastOp.remote
        /\ lastOp.outcome = "ok"
        /\ lastOp.resp = LoadReads(fs, LastQueryDir).resp

\* C2: query(q) returns the response _run_query returned for q, text and
\* metadata unchanged, on the call that runs the remote query and on every
\* later call that hits the cache.
C2_QueryReturnsRemoteResponseUnmodified ==
    lastOp.kind = "query" =>
        /\ (lastOp.remote /\ lastOp.given # None) =>
               (lastOp.outcome = "ok" /\ lastOp.resp = lastOp.given)
        /\ (~lastOp.remote /\ lastOp.priorSuccess) =>
               /\ lastOp.outcome = "ok"
               /\ \E i \in SuccessfulCalls(remoteLog, lastOp.model_id,
                                           lastOp.q) :
                      lastOp.resp = remoteLog[i].result

\* C3: a cache-only query() with no entry for its key raises ValueError,
\* does not call _run_query and leaves the key without an entry; with an
\* entry it returns the cached response.
C3_CacheOnlyQuery ==
    (lastOp.kind = "query" /\ lastOp.use_cache_only) =>
        /\ ~lastOp.remote
        /\ ~lastOp.hadMarker =>
               (lastOp.outcome = "ValueError"
                    /\ ~PromptExists(fs, LastQueryDir))
        /\ lastOp.hadMarker =>
               (lastOp.outcome = "ok"
                    /\ lastOp.resp = LoadReads(fs, LastQueryDir).resp)

\* C4: two queries get the same folder exactly when they have the same
\* model identifier and are equal (so the same prompt with other
\* hyperparameters gets another folder), and a response query() returns
\* for a query is the stored form of a response _run_query produced for
\* that model and that query, never one produced for another query.
C4_FolderPerModelAndQuery ==
    /\ \A c1 \in Clients, c2 \in Clients, q1 \in BaseQueries,
          q2 \in BaseQueries :
           (CacheDirName(c1, q1) = CacheDirName(c2, q2))
               <=> (c1.model_id = c2.model_id /\ q1 = q2)
    /\ (lastOp.kind = "query" /\ lastOp.outcome = "ok") =>
           \E i \in SuccessfulCalls(remoteLog, lastOp.model_id, lastOp.q) :
               /\ remoteLog[i].result[1].text # None
               /\ lastOp.resp = Some(Persisted(remoteLog[i].result[1]))

\* Hello and HelloSeed are both cached for one model with different
\* completions, and the last query() was a cache hit.
C4_Witness ==
    LET c == [model_id |-> "canned", use_cache_only |-> FALSE]
        d1 == CacheDirName(c, Hello)
        d2 == CacheDirName(c, HelloSeed)
    IN  /\ d1 \in DOMAIN fs /\ d2 \in DOMAIN fs
        /\ fs[d1].metadata # Absent /\ fs[d2].metadata # Absent
        /\ fs[d1].completion # fs[d2].completion
        /\ lastOp.kind = "query" /\ lastOp.q = Hello
        /\ lastOp.model_id = "canned" /\ ~lastOp.remote
        /\ lastOp.outcome = "ok"

\* C10: a store that an exception ends after some of its writes leaves an
\* entry that looks absent (no prompt.txt), so that the next lookup
\* reports not-found and never fails on the half-written entry.
C10_InterruptedStoreLooksAbsent ==
    /\ (lastOp.kind = "query"
            /\ lastOp.outcome \in {"Interrupted", "TypeError"}) =>
           ~PromptExists(fs, LastQueryDir)
    /\ (lastOp.kind = "save"
            /\ lastOp.outcome \in {"Interrupted", "TypeError"}) =>
           ~PromptExists(fs, CacheDirForQuery(lastOp.q, lastOp.model_id))
    /\ lastOp.kind \in {"query", "load"} =>
           lastOp.outcome # "FileNotFoundError"

----------------------------------------------------------------------------
(* Properties of the reprompt loop and of the synthesis.                   *)

LoopReturned == loop.state \in {"Accepted", "Exhausted"}

\* Some check of the chain refuses every response, and the checks before
\* it do not raise.
AlwaysRejecting(chain) ==
    \E i \in 1..Len(chain) :
        /\ chain[i] = "Reject"
        /\ \A j \in 1..(i - 1) : chain[j] \in {"Reject", "Any"}

C5_ExhaustedAfterMaxAttempts ==
    (AlwaysRejecting(loop.chain) /\ loop.state \in LoopTerminal) =>
        /\ loop.state # "Accepted"
        /\ loop.state = "Raised" => loop.raisedBy = "query"
        /\ loop.state = "Exhausted" =>
               /\ Len(loop.issued) = loop.max_attempts
               /\ Len(loop.returned) = loop.max_attempts
               /\ loop.resp = Some(loop.returned[loop.max_attempts])

\* C5: with max_attempts = N >= 1 and a check that always rejects, the
\* loop ends; it never accepts and raises only if a query raises; when
\* every query returns it has issued exactly N queries and returns the
\* response of the Nth.
C5_RepromptTermination ==
    /\ [](C5_ExhaustedAfterMaxAttempts)
    /\ [](Len(loop.issued) <= loop.max_attempts)
    /\ (loop.state = "Pending") ~> (loop.state \in LoopTerminal)

C5_Witness ==
    /\ loop.state = "Exhausted"
    /\ loop.chain = <<"Reject">>
    /\ loop.max_attempts = 3
    /\ Len(loop.issued) = 3
    /\ loop.resp = Some(loop.returned[3])

\* The answer of check i of the chain to the current response, for the
\* checks of code.py.
CodeCheckAccepts(i) ==
    loop.chain[i] \in {"Syntax", "Output"} =>
        GetReprompt(loop.chain[i], loop.query, loop.resp[1], TRUE) = Accepted

\* C6: the loop returns a response as Accepted only if every check of the
\* chain, run in order, accepted it; it stops at the first attempt whose
\* response every check accepts, returns that response and issues no
\* query after it.
C6_AcceptedByEveryCheck ==
    /\ loop.state = "Accepted" =>
           /\ Len(loop.evals) = Len(loop.chain)
           /\ \A i \in 1..Len(loop.chain) :
                  /\ loop.evals[i].idx = i
                  /\ loop.evals[i].accepted
                  /\ loop.chain[i] # "Reject"
                  /\ CodeCheckAccepts(i)
           /\ loop.resp = Some(loop.returned[Len(loop.returned)])
           /\ Len(loop.issued) = Len(loop.history)
    /\ \A i \in 1..Len(loop.history) :
           loop.history[i].rejectedBy = 0 =>
               /\ i = Len(loop.history)
               /\ i = Len(loop.issued)
               /\ loop.state = "Accepted"
               /\ loop.resp = Some(loop.history[i].resp)

C6_Witness ==
    /\ loop.state = "Accepted"
    /\ loop.chain = <<"Syntax", "Output">>
    /\ Len(loop.issued) = 3
    /\ loop.history[1].rejectedBy = 1
    /\ loop.history[2].rejectedBy = 2

C7_AttemptWithinBudget ==
    loop.state # "Idle" =>
        /\ 1 <= loop.attempt /\ loop.attempt <= loop.max_attempts
        /\ Len(loop.issued) <= loop.max_attempts
        /\ loop.state = "Pending" => Len(loop.issued) = loop.attempt - 1
        /\ loop.state \in {"Validating", "Accepted", "Exhausted"} =>
               Len(loop.issued) = loop.attempt
        /\ LoopReturned => Len(loop.issued) >= 1
        /\ loop.max_attempts = 1 =>
               /\ loop.query = loop.initial
               /\ \A i \in 1..Len(loop.issued) : loop.issued[i] = loop.initial
               /\ LoopReturned => Len(loop.issued) = 1

C7_AttemptStep ==
    /\ (loop.state = "Idle" /\ loop'.state # "Idle") => loop'.attempt = 1
    /\ loop.state # "Idle" =>
           /\ loop'.attempt \in {loop.attempt, loop.attempt + 1}
           /\ loop'.attempt = loop.attempt + 1 =>
                  /\ loop.state = "Validating" /\ loop'.state = "Pending"
                  /\ Len(loop'.history) = Len(loop.history) + 1
           /\ loop'.query # loop.query => loop'.attempt = loop.attempt + 1

\* C7: the attempt counter starts at 1, grows by exactly 1 with each
\* reprompt and never exceeds max_attempts, so a run issues between 1 and
\* max_attempts queries whatever the checks answer; with max_attempts = 1
\* exactly one query is issued and no follow-up query ever is.
C7_AttemptCounter == [](C7_AttemptWithinBudget) /\ [][C7_AttemptStep]_vars

C7_Witness ==
    /\ loop.state = "Exhausted"
    /\ loop.max_attempts = 1
    /\ loop.chain = <<"Syntax">>
    /\ Len(loop.issued) = 1
    /\ loop.followup # None

\* C8: the checks run in the order of the chain and the first that
\* rejects ends the round: no later check is run on that response, the
\* follow-up query is the one that check produced and it is the query of
\* the next attempt; an output check placed after a syntax check is never
\* run on a response the syntax check rejected.
C8_FirstRejectionShortCircuits ==
    /\ \A i \in 1..Len(loop.evals) :
           /\ loop.evals[i].idx = i
           /\ loop.evals[i].kind = loop.chain[i]
           /\ i < Len(loop.evals) => loop.evals[i].accepted
           /\ (loop.evals[i].kind = "Output" /\ \E j \in 1..(i - 1) :
                                                   loop.chain[j] = "Syntax") =>
                  SyntaxGetReprompt(loop.issued[Len(loop.issued)],
                                    loop.returned[Len(loop.returned)])
                      = Accepted
    /\ (loop.rejectedBy # None /\ loop.state \in {"Pending", "Exhausted"}) =>
           LET k == loop.rejectedBy[1]
               q == loop.issued[Len(loop.issued)]
               r == loop.returned[Len(loop.returned)]
           IN  /\ k = Len(loop.evals)
               /\ ~loop.evals[k].accepted
               /\ loop.followup =
                      GetReprompt(loop.chain[k], q, r, FALSE).reprompt
               /\ loop.state = "Pending" => loop.query = loop.followup[1]

C8_Witness ==
    /\ loop.state = "Pending"
    /\ loop.chain = <<"Syntax", "Output">>
    /\ loop.rejectedBy = Some(1)
    /\ Len(loop.evals) = 1
    /\ loop.query = SyntaxGetReprompt(loop.issued[1], loop.returned[1]).reprompt[1]

\* C9: the synthesis raises RuntimeError exactly when the response the
\* loop returned holds no code block, and otherwise returns the function
\* name it was given with the code extracted from that response; with
\* chain [SyntaxRepromptCheck] and a first response that does not parse,
\* the code is the block of the second response.
C9_ArtifactFromTerminalResponse ==
    (synth.state \in {"Returned", "Raised"}) =>
        /\ synth.state = "Returned" => LoopReturned
        /\ LoopReturned =>
               LET code == ParsePythonCode(loop.resp[1].text[1])
               IN  /\ loop.resp = Some(loop.returned[Len(loop.returned)])
                   /\ code = None =>
                          (synth.state = "Raised"
                               /\ synth.error = "RuntimeError")
                   /\ code # None =>
                          /\ synth.state = "Returned"
                          /\ synth.artifact =
                                 Some([function_name |-> "count_good_dogs",
                                       code_str |-> code[1]])
        /\ (synth.state = "Returned" /\ loop.chain = <<"Syntax">>
                /\ Len(loop.returned) = 2) =>
               /\ synth.artifact[1].code_str =
                      ParsePythonCode(loop.returned[2].text[1])[1]
               /\ loop.state = "Accepted" =>
                      AstParses(synth.artifact[1].code_str)

C9_Witness ==
    /\ synth.state = "Returned"
    /\ loop.chain = <<"Syntax">>
    /\ loop.returned = <<SyntaxErrorCode, ValidCode>>
    /\ synth.artifact[1].code_str = <<"LF", "g", "LF">>

----------------------------------------------------------------------------
(* Properties of a query() whose remote call raises.                       *)

\* The last step was a query() in which _run_query was called and raised.
RemoteRaised == lastOp.kind = "query" /\ lastOp.remote /\ lastOp.given = None

C11_RaisedLeavesNoEntry ==
    RemoteRaised =>
        /\ lastOp.outcome = "RemoteError"
        /\ lastOp.resp = None
        /\ ~lastOp.hadMarker
        /\ ~PromptExists(fs, LastQueryDir)
        /\ fs[LastQueryDir] = EmptyFolder

C11_RaisedStep ==
    RemoteRaised' =>
        /\ Len(remoteLog') = Len(remoteLog) + 1
        /\ remoteLog'[Len(remoteLog')].result = None
        /\ \A d \in DOMAIN fs : fs'[d] = fs[d]
        /\ \A d \in DOMAIN fs' \ DOMAIN fs : fs'[d] = EmptyFolder

\* A query() that follows a raised one for the same model and query finds
\* no entry: it calls _run_query again, or raises ValueError if it is
\* cache-only.
C11_LaterQueryMisses ==
    (RemoteRaised /\ lastOp'.kind = "query"
         /\ lastOp'.model_id = lastOp.model_id /\ lastOp'.q = lastOp.q) =>
        /\ ~lastOp'.hadMarker
        /\ lastOp'.remote \/ lastOp'.outcome = "ValueError"

\* C11: when _run_query raises, query() ends with that exception, has
\* called _run_query exactly once, writes no file (the entry of the key
\* has no prompt.txt, and every entry that existed is as it was), and the
\* next query() for the key misses again.
C11_RemoteErrorPropagates ==
    /\ [](C11_RaisedLeavesNoEntry)
    /\ [][C11_RaisedStep]_vars
    /\ [][C11_LaterQueryMisses]_vars

\* _run_query raised while another key was cached, after an earlier raise
\* for the same key.
C11_Witness ==
    /\ RemoteRaised
    /\ \E d \in DOMAIN fs : fs[d].metadata # Absent
    /\ \E i \in 1..(Len(remoteLog) - 1) :
           /\ remoteLog[i].result = None
           /\ remoteLog[i].q = lastOp.q
           /\ remoteLog[i].model_id = lastOp.model_id

----------------------------------------------------------------------------
(* Properties of FilePretrainedLargeModelCache.save called twice.          *)

\* This step is a save of the query and the response that the step before
\* it saved.
SavedAgain ==
    /\ lastOp.kind = "save" /\ lastOp'.kind = "save"
    /\ lastOp'.model_id = lastOp.model_id
    /\ lastOp'.q = lastOp.q
    /\ lastOp'.given = lastOp.given

\* The second save leaves every file as the first left it.
C12_SecondSaveChangesNothing ==
    [][SavedAgain => (fs' = fs /\ lastOp'.outcome = lastOp.outcome)]_vars

\* C12: save(query, model_id, response) called a second time with the
\* same values leaves the cache directory as the first call left it, and
\* try_load_response(query, model_id) then returns that response.
C12_StoreTwiceThenLookup ==
    [][SavedAgain =>
          /\ fs' = fs
          /\ lastOp'.outcome = "ok"
          /\ LET ld == TryLoadResponse(fs', lastOp'.q, lastOp'.model_id)
             IN  ld.outcome = "ok" /\ ld.resp = lastOp'.given]_vars

----------------------------------------------------------------------------
(* Properties of a run of the loop that repeats an earlier run.            *)

\* The second run has ended.
RerunEnded == loop.first # None /\ loop.state \in LoopTerminal

\* While the second run goes on, its queries and their responses are the
\* first ones of the first run.
C13_RerunFollowsRun ==
    (loop.first # None /\ loop.first[1].exception = "") =>
        /\ Len(loop.issued) <= Len(loop.first[1].issued)
        /\ loop.issued = SubSeq(loop.first[1].issued, 1, Len(loop.issued))
        /\ Len(loop.returned) <= Len(loop.first[1].returned)
        /\ loop.returned =
               SubSeq(loop.first[1].returned, 1, Len(loop.returned))

\* A run in which every query() returned is repeated query for query.
C13_RerunReproducesReturnedRun ==
    (RerunEnded /\ loop.first[1].exception = "") =>
        RunOutcome(loop) = loop.first[1]

\* C13: a second run with the same initial query, checks and max_attempts
\* and a model that answers each query as before issues the queries of
\* the first run and ends as the first run ended, with the same response
\* or the same exception, wherever the responses came from.
C13_RerunReproducesRun == RerunEnded => RunOutcome(loop) = loop.first[1]

----------------------------------------------------------------------------
(* Properties of the entries under a sequence of query() calls.            *)

\* Every folder stays, and a folder that holds prompt.txt keeps its files
\* as they are.
C14_EntriesKept ==
    \A d \in DOMAIN fs :
        /\ d \in DOMAIN fs'
        /\ PromptExists(fs, d) => fs'[d] = fs[d]
        /\ fs'[d] # fs[d] => (d = LastQueryDir' /\ fs[d] = EmptyFolder)

\* prompt.txt appears only in the folder of the query() of this step, and
\* only when that query() called _run_query, it returned, and it had not
\* returned for this key before.
C14_EntryCreatedByFirstRemoteQuery ==
    \A d \in DOMAIN fs' :
        (PromptExists(fs', d) /\ (d \in DOMAIN fs => ~PromptExists(fs, d))) =>
            /\ lastOp'.kind = "query"
            /\ d = LastQueryDir'
            /\ lastOp'.remote /\ lastOp'.given # None
            /\ ~lastOp'.priorSuccess
            /\ ~lastOp'.use_cache_only
            /\ fs'[d].prompt = Some(WriteText(lastOp'.q.prompt))

\* C14: under query() calls an entry that is present is never removed and
\* its prompt, completion and metadata never change; an entry appears
\* only when query() calls _run_query for a key without an entry and the
\* call returns.
C14_EntriesWrittenOnce ==
    [][C14_EntriesKept /\ C14_EntryCreatedByFirstRemoteQuery]_vars

\* A query() hit the entry made two calls earlier, after an entry with
\* another response was made for another query.
C14_Witness ==
    /\ lastOp.kind = "query" /\ lastOp.hadMarker /\ ~lastOp.remote
    /\ lastOp.outcome = "ok" /\ ops = 3
    /\ Len(remoteLog) = 2
    /\ remoteLog[1].q = lastOp.q /\ remoteLog[1].model_id = lastOp.model_id
    /\ remoteLog[2].result # None /\ remoteLog[2].q # lastOp.q
    /\ remoteLog[2].result # remoteLog[1].result

----------------------------------------------------------------------------
(* Properties of parse_python_code_from_text.                              *)

Whitespace == {"LF", "CR"}

\* s.strip()
RECURSIVE Strip(_)
Strip(s) ==
    IF s = << >> THEN s
    ELSE IF Head(s) \in Whitespace THEN Strip(Tail(s))
    ELSE IF s[Len(s)] \in Whitespace THEN Strip(SubSeq(s, 1, Len(s) - 1))
    ELSE s

\* The text between the first ```python and the next ``` (or the end).
FirstBlock(text) ==
    LET open == MinOf({ i \in 1..Len(text) : text[i] = "PY" })
        close == { i \in (open + 1)..Len(text) : text[i] \in {"F", "PY"} }
    IN  IF close = {} THEN SubSeq(text, open + 1, Len(text))
        ELSE SubSeq(text, open + 1, MinOf(close) - 1)

Parsed == call.fn = "parse_python_code_from_text" /\ call.done

HasOpeningFence(text) == \E i \in 1..Len(text) : text[i] = "PY"

\* The result is None exactly without an opening fence, and otherwise the
\* first block as it stands in the text.
C15_BlockAsWritten ==
    Parsed =>
        IF HasOpeningFence(call.arg)
        THEN call.result = Some(FirstBlock(call.arg))
        ELSE call.result = None

\* C15: parse_python_code_from_text(text) is None when the text has no
\* ```python, and otherwise the first block, up to the next ``` or the end
\* of the text, with the white space around it removed: "X" for
\* "```python\nX\n```" and for "```python\nX".
C15_TrimmedFirstBlock ==
    Parsed =>
        IF HasOpeningFence(call.arg)
        THEN call.result = Some(Strip(FirstBlock(call.arg)))
        ELSE call.result = None

----------------------------------------------------------------------------
(* Properties of SynthesizedPythonFunction.run.                            *)

\* The file is written on the first run() and never again; nothing is
\* loaded before the first run().
C16_LazyFileWrittenOnce ==
    art.made =>
        /\ art.runs = 0 => (art.filepath = None /\ art.modules = 0)
        /\ art.runs >= 1 => (art.filepath = Some(1) /\ art.filesWritten = 1)

\* Every run() makes a module of its own.
C16_ModulePerRun ==
    art.made => (art.modules = art.runs /\ art.lastModule = art.runs)

\* C16: an instance has no module before its first run(), the first run()
\* loads one, and every later run() uses that one module: an instance
\* whose runs return never loads a second module.
C16_ModuleLoadedOnce ==
    (art.made /\ art.raised = "") =>
        /\ art.runs = 0 => art.modules = 0
        /\ art.runs >= 1 => (art.modules = 1 /\ art.lastModule = 1)

----------------------------------------------------------------------------
(* Properties of FunctionOutputRepromptCheck.                              *)

OutputChecked == call.fn = "FunctionOutputRepromptCheck" /\ call.done

\* The code of the response, when the response has a block that parses
\* and defines the function: the code the check can run.
RunnableCode(response, function_name) ==
    IF response.text = None THEN None
    ELSE LET code == ParsePythonCode(response.text[1])
         IN  IF code # None /\ AstParses(code[1])
                   /\ Defines(code[1], function_name)
             THEN code
             ELSE None

\* The pairs whose check function refuses the output of the code.
FailingPairs(check, code) ==
    { i \in 1..Len(check.inputs) :
        RunCode(check.function_name, code, check.inputs[i]).out
            \notin check.output_check_fns[i] }

\* C17: the check can be made only with as many check functions as
\* inputs; on a response whose code runs it accepts exactly when every
\* check function accepts the output for its input, and otherwise it
\* stops at the first pair that fails, having run the inputs up to that
\* one and no later one, and its follow-up query carries a message with
\* that input and that output.
C17_OutputCheckStopsAtFirstFailure ==
    OutputChecked =>
        LET check == call.arg.check
            res == call.result
            code == RunnableCode(call.arg.response, check.function_name)
        IN  /\ res.constructed <=>
                   (Len(check.inputs) = Len(check.output_check_fns))
            /\ ~res.constructed => res.raised = "AssertionError"
            /\ (res.constructed /\ code # None) =>
                   LET failing == FailingPairs(check, code[1])
                   IN  /\ res.raised = ""
                       /\ (res.reprompt = None) <=> (failing = {})
                       /\ failing = {} => res.ran = check.inputs
                       /\ failing # {} =>
                              LET k == MinOf(failing)
                                  fn_in == check.inputs[k]
                                  fn_out == RunCode(check.function_name,
                                                    code[1], fn_in).out
                              IN  /\ res.ran = SubSeq(check.inputs, 1, k)
                                  /\ res.reprompt = Some(CreateReprompt(
                                         call.arg.query, call.arg.response,
                                         OutputErrorMsg(check.function_name,
                                                        fn_in, fn_out)))

\* Code that is one short was given two dogs, then one: the first pair is
\* accepted as any output is, the second is refused.
C17_WitnessSecondPair ==
    /\ OutputChecked
    /\ call.arg.response = WrongCode
    /\ call.arg.check.inputs = <<2, 1>>
    /\ call.arg.check.output_check_fns = <<{0, 1, 2}, {1}>>
    /\ call.result.reprompt # None
    /\ call.result.ran = <<2, 1>>

\* The first of two pairs is refused and the second input is not run.
C17_Witness ==
    /\ OutputChecked
    /\ call.arg.response = WrongCode
    /\ call.arg.check.inputs = <<2, 1>>
    /\ call.arg.check.output_check_fns = <<{2}, {1}>>
    /\ call.result.reprompt # None
    /\ call.result.ran = <<2>>

----------------------------------------------------------------------------
(* Properties of SyntaxRepromptCheck.                                      *)

SyntaxChecked == call.fn = "SyntaxRepromptCheck" /\ call.done

\* The text holds no block, or the block does not parse.
NoCodeThatParses(text) ==
    \/ text = None
    \/ ParsePythonCode(text[1]) = None
    \/ ~AstParses(ParsePythonCode(text[1])[1])

\* On a text that is not None the check does not raise, and rejects
\* exactly when there is no block or the block does not parse.
C18_SyntaxCheckOnText ==
    (SyntaxChecked /\ call.arg.response.text # None) =>
        /\ call.result.raised = ""
        /\ (call.result.reprompt # None)
               <=> NoCodeThatParses(call.arg.response.text)

\* C18: SyntaxRepromptCheck.get_reprompt never raises; it returns a
\* follow-up query exactly when the response holds no code block, as a
\* None or empty text does, or when the block does not parse.
C18_SyntaxCheckNeverCrashes ==
    SyntaxChecked =>
        /\ call.result.raised = ""
        /\ (call.result.reprompt # None)
               <=> NoCodeThatParses(call.arg.response.text)

----------------------------------------------------------------------------
(* Properties of consistent_hash.                                          *)

Hashed == call.fn = "consistent_hash" /\ call.done

\* -2**63 <= x < 2**63
InSigned64(x) ==
    IF x.negative
    THEN \/ Below2Pow63(x.magnitude)
         \/ x.magnitude = [i \in 1..16 |-> IF i = 4 THEN 2^15 ELSE 0]
    ELSE Below2Pow63(x.magnitude)

\* A digest below 2**63 is returned as it is.
C19_SmallDigestReturned ==
    (Hashed /\ Below2Pow63(call.arg)) => call.result = PyInt(FALSE, call.arg)

\* C19: consistent_hash returns an integer of [-2**63, 2**63): a digest
\* below 2**63 as it is, and a digest at or above 2**63 as a negative
\* number.
C19_HashInSigned64Range ==
    Hashed =>
        /\ InSigned64(call.result)
        /\ Below2Pow63(call.arg) => call.result = PyInt(FALSE, call.arg)
        /\ ~Below2Pow63(call.arg) => call.result.negative

====
